---- MODULE Spec2Model ----
(***************************************************************************)
(* State-machine model of deep_bot1.py: the poll-authoring conversation,  *)
(* the daily-quiz configuration conversation, the run_dailyquiz task, the *)
(* poll-answer scoring handler, the auto-quiz and /TQ publishers and the  *)
(* deferred close_poll jobs.                                               *)
(*                                                                         *)
(* Scheduling: update handlers are dispatched one at a time and are       *)
(* modelled as one action each.  run_dailyquiz is an asyncio task: the    *)
(* code between two awaits runs without interruption, so the variable     *)
(* cpu names the task that is inside such a section (0 = none) and every  *)
(* other action waits for cpu = 0.                                         *)
(***************************************************************************)
EXTENDS Integers, Sequences, FiniteSets, TLC

(* ----------------------------- bounds ---------------------------------- *)
\* Telegram users that answer polls.
NumUsers == 2
\* Telegram users that send commands and texts to the bot.
NumOperators == 1
\* run_dailyquiz tasks that can be alive at the same time (task slots).
MaxRuns == 2
\* Polls the transport accepts in one behaviour (poll ids 1..MaxPolls).
MaxPolls == 2
\* Largest question count typed into the daily-quiz configuration flow.
MaxCount == 2
\* Largest score (and largest number of correct answers) that is tracked.
MaxScore == 2
\* Largest number of questions in one /TQ batch.
MaxTQ == 2

Users == 1..NumUsers
Operators == 1..NumOperators
Runs == 1..MaxRuns
PollIds == 1..MaxPolls

(* ------------------------ program constants ---------------------------- *)
POLL_TYPE == 0
POLL_QUESTION == 1
POLL_OPTIONS == 2
POLL_CORRECT == 3
DAILYQUIZ_TOPIC == 0
DAILYQUIZ_COUNT == 1
\* ConversationHandler.END of python-telegram-bot.
END == -1
POLL_DURATION == 86400
QUIZ_INTERVAL == 86400
\* Cap of the question handed to send_poll: question[:300].
MaxQuestionLen == 300
\* options[:10]
MaxPollOptions == 10
\* len(options) != 4
NumQuizOptions == 4
\* dailyquiz_count default of chat_data.get("dailyquiz_count", 25)
DefaultCount == 25

(* ------------------------------ text ----------------------------------- *)
\* A text is a sequence of one-character strings.
Whitespace == {" "}
Digits == <<"0", "1", "2", "3", "4", "5", "6", "7", "8", "9">>

RECURSIVE LStrip(_)
LStrip(s) ==
    IF s # <<>> /\ Head(s) \in Whitespace THEN LStrip(Tail(s)) ELSE s

RECURSIVE RStrip(_)
RStrip(s) ==
    IF s # <<>> /\ s[Len(s)] \in Whitespace
    THEN RStrip(SubSeq(s, 1, Len(s) - 1))
    ELSE s

\* str.strip()
Strip(s) == RStrip(LStrip(s))

LowerChar(c) ==
    CASE c = "Y" -> "y"
      [] c = "E" -> "e"
      [] c = "S" -> "s"
      [] c = "N" -> "n"
      [] c = "O" -> "o"
      [] OTHER -> c

\* str.lower()
Lower(s) == [k \in 1..Len(s) |-> LowerChar(s[k])]

\* s[:n]
Take(s, n) == SubSeq(s, 1, IF Len(s) < n THEN Len(s) ELSE n)

\* str.split(sep): always at least one piece, empty pieces kept.
RECURSIVE SplitFrom(_, _, _)
SplitFrom(s, sep, cur) ==
    IF s = <<>> THEN <<cur>>
    ELSE IF Head(s) = sep THEN <<cur>> \o SplitFrom(Tail(s), sep, <<>>)
    ELSE SplitFrom(Tail(s), sep, Append(cur, Head(s)))

Split(s, sep) == SplitFrom(s, sep, <<>>)

IsDigit(c) == \E d \in 1..10 : Digits[d] = c
DigitVal(c) == (CHOOSE d \in 1..10 : Digits[d] = c) - 1

RECURSIVE DigitsVal(_, _)
DigitsVal(s, acc) ==
    IF s = <<>> THEN acc ELSE DigitsVal(Tail(s), 10 * acc + DigitVal(Head(s)))

\* A parse that reads every text as the number 0.
IntParseAnything(s) == [ok |-> TRUE, val |-> 0]

\* int(text): surrounding whitespace is ignored, one optional sign, then at
\* least one digit; anything else raises ValueError (ok = FALSE).
IntParse(s) ==
    LET t == Strip(s)
        signed == t # <<>> /\ Head(t) \in {"-", "+"}
        body == IF signed THEN Tail(t) ELSE t
        good == body # <<>> /\ \A k \in 1..Len(body) : IsDigit(body[k])
    IN  IF good
        THEN [ok |-> TRUE,
              val |-> IF signed /\ Head(t) = "-"
                      THEN 0 - DigitsVal(body, 0) ELSE DigitsVal(body, 0)]
        ELSE [ok |-> FALSE, val |-> 0]

\* [x for x in xs if pred]
RECURSIVE NonBlankStripped(_)
NonBlankStripped(parts) ==
    IF parts = <<>> THEN <<>>
    ELSE IF Strip(Head(parts)) # <<>>
         THEN <<Strip(Head(parts))>> \o NonBlankStripped(Tail(parts))
         ELSE NonBlankStripped(Tail(parts))

(* ----------------------- inputs of the handlers ------------------------ *)
\* Texts a user types at the anonymity step.
PollTypeTexts ==
    { <<"y", "e", "s">>, <<" ", "N", "o", " ">>, <<"m", "a", "y", "b", "e">>,
      <<"y", "e", "s", "!">> }
\* Texts typed as the poll question.
QuestionTexts == { <<"Q", "?">> }
\* Texts typed at the options step: "a, b ,, c", "a", " , ", "a,b".
OptionsTexts ==
    { <<"a", ",", " ", "b", " ", ",", ",", " ", "c">>, <<"a">>,
      <<" ", ",", " ">>, <<"a", ",", "b">> }
\* Texts typed at the correct-option step.
CorrectTexts == { <<"1">>, <<" ", "3">>, <<"0">>, <<"4">>, <<"x">>, <<"-", "1">> }
\* A question of 301 characters.
LongQuestion == [j \in 1..(MaxQuestionLen + 1) |-> IF j = 1 THEN "Q" ELSE "q"]
\* Eleven options: "a,a,a,a,a,a,a,a,a,a,k".
ManyOptionsText ==
    [j \in 1..(2 * MaxPollOptions + 1) |->
        IF j % 2 = 0 THEN "," ELSE IF j > 2 * MaxPollOptions THEN "k" ELSE "a"]
\* Numbers typed at the correct-option step after eleven options.
ManyCorrectTexts == { <<"1", "0">>, <<"1", "1">> }
\* Texts typed as the quiz topic: "H" and a blank text.
TopicTexts == { <<"H">>, <<" ">> }
\* Texts typed as the question count.
CountTexts == { <<"0">>, <<"2">>, <<"-", "1">>, <<"x">>, <<" ", "2", " ">> }
\* Arguments of /auth.
ACCESS_CODE == <<"k">>
AuthArgs == { <<"k">>, <<"z">>, <<>> }

\* Texts that reach handle_auto_quiz: "Q?" and "hi".
AutoTexts == { <<"Q", "?">>, <<"h", "i">> }

(* ---------------------- generated quiz payloads ------------------------ *)
\* Largest rotation random.shuffle is allowed to pick in this model.
MaxShift == 1
\* Display cap of an option in handle_auto_quiz.
MaxOptionLen == 95

OptA == <<"a">>
OptB == <<"b">>
OptC == <<"c">>
OptD == <<"d">>

\* What model.generate_content(prompt) and json.loads give back:
\*   kind    "raise"   the generator call raises
\*           "badjson" json.loads raises
\*           "nondict" JSON that is not an object (no .get)
\*           "dict"    a JSON object
\*   options tag "missing" | "notlist" | "list" (val = the list)
\*   ci      tag "missing" | "other" (string, float, null) | "int" (val)
GenOptions ==
    { [tag |-> "missing", val |-> <<>>],
      [tag |-> "notlist", val |-> <<>>],
      [tag |-> "list", val |-> <<OptA, OptB, OptC>>],
      [tag |-> "list", val |-> <<OptA, OptB, OptC, OptD>>] }

GenIndexes ==
    { [tag |-> "missing", val |-> 0], [tag |-> "other", val |-> 0] }
    \cup { [tag |-> "int", val |-> n] : n \in {-5, 0, 4} }

NoPayload == [kind |-> "raise", options |-> [tag |-> "missing", val |-> <<>>],
              ci |-> [tag |-> "missing", val |-> 0]]

\* The payloads: every kind, every options value with one correct_index,
\* and the 4-option list with every correct_index.
GenItems ==
    { [NoPayload EXCEPT !.kind = k] : k \in {"raise", "badjson", "nondict"} }
    \cup { [kind |-> "dict", options |-> o, ci |-> [tag |-> "int", val |-> 0]] :
             o \in GenOptions }
    \cup { [kind |-> "dict",
            options |-> [tag |-> "list", val |-> <<OptA, OptB, OptC, OptD>>],
            ci |-> c] : c \in GenIndexes }

\* A check that accepts a list of any length.
OptionsOkAnyList(item) == item.options.tag = "list"

\* isinstance(options, list) and len(options) == 4
OptionsOk(item) ==
    item.options.tag = "list" /\ Len(item.options.val) = NumQuizOptions

\* data.get("correct_index", 0): the default stands in for a missing key only.
GetIndexDefault0(item) ==
    IF item.ci.tag = "missing" THEN [tag |-> "int", val |-> 0] ELSE item.ci

\* Whether options[correct_index] evaluates: an int in [-len, len).
SubscriptOk(opts, ci) ==
    ci.tag = "int" /\ ci.val >= 0 - Len(opts) /\ ci.val < Len(opts)

\* options[correct_index] for an int in [-len, len) (negative counts from the end).
Subscript(opts, n) == opts[(n % Len(opts)) + 1]

\* not isinstance(ci, int) or ci < 0 or ci >= len(options)  ->  0
ClampIndex(opts, ci) ==
    IF ci.tag # "int" \/ ci.val < 0 \/ ci.val >= Len(opts) THEN 0 ELSE ci.val

\* option[:95] + "..." when len(option) > 95
Truncate(option) ==
    IF Len(option) > MaxOptionLen
    THEN Take(option, MaxOptionLen) \o <<".", ".", ".">>
    ELSE option

TruncateAll(opts) == [k \in 1..Len(opts) |-> Truncate(opts[k])]

\* The orders random.shuffle may produce: here the rotations by 0..MaxShift.
Shifts == 0..MaxShift
Shuffled(opts, k) == [j \in 1..Len(opts) |-> opts[((j - 1 + k) % Len(opts)) + 1]]

\* list.index(x): the first position (0-based) holding a value equal to x.
IndexOf(opts, x) ==
    (CHOOSE j \in 1..Len(opts) :
        opts[j] = x /\ \A h \in 1..(j - 1) : opts[h] # x) - 1

\* An option of 96 characters: 95 times "x", then c.
LongOption(c) ==
    [j \in 1..(MaxOptionLen + 1) |-> IF j <= MaxOptionLen THEN "x" ELSE c]

\* An option of exactly 95 characters.
FullOption == [j \in 1..MaxOptionLen |-> "x"]

\* 4-element option lists: distinct texts, repeated texts, options longer
\* than the display cap, two of them equal in their first 95 characters.
OptionLists ==
    { <<OptA, OptB, OptC, OptD>>,
      <<OptA, OptB, OptA, OptD>>,
      <<OptA, OptA, OptA, OptA>>,
      <<LongOption("a"), OptB, OptC, OptD>>,
      <<FullOption, OptB, OptC, LongOption("a")>>,
      <<LongOption("a"), OptB, LongOption("b"), OptD>> }

\* The orders random.shuffle may leave a list of n elements in: all of them.
Orders(n) ==
    { perm \in [1..n -> 1..n] : \A a, b \in 1..n : perm[a] = perm[b] => a = b }

\* The list after a shuffle that moved the element at perm[j] to position j.
Permuted(opts, perm) == [j \in 1..Len(opts) |-> opts[perm[j]]]

\* No item in preparation.
NoPrep ==
    [stage |-> "none", path |-> "none", given |-> <<>>, ci |-> 0,
     before |-> <<>>, options |-> <<>>, origin |-> <<>>,
     original_correct_option |-> <<>>, correct_index |-> 0]

(* ------------------------------ state ---------------------------------- *)
VARIABLES
    AUTHORIZED_USER_IDS,  \* the process-wide set of authorized user ids
    poll_conv,            \* per user: state of the /poll conversation
    dailyquiz_conv,       \* per user: state of the /dailyquiz conversation
    user_data,            \* per user: context.user_data (keys and values)
    chat_keys,            \* keys present in context.chat_data
    chat_data,            \* values of context.chat_data
    tasks,                \* per run: locals and position of a run_dailyquiz task
    cpu,                  \* the task inside an await-free section, 0 if none
    tq,                   \* questions the running handle_TQ call has left
    published,            \* transport: the polls created, poll id = position
    jobs,                 \* job queue: pending close_poll jobs
    stop_calls,           \* transport: stop_poll calls received per poll
    out,                  \* messages sent to the channel or user by the last step
    event,                \* the update or task step handled by the last step
    earned,               \* history: per unfinished run and user, correct
                          \* answers given to polls that run published
    stopmark,             \* history: per unfinished run, polls it had published
                          \* when a stop request arrived in its interval wait
    owner,                \* history: per poll, the unfinished run that
                          \* published it, 0 if none
    disturbed,            \* history: per unfinished run, whether it skipped an
                          \* item, had a publish fail or lived through a stop
                          \* request
    stop_pending,         \* history: per unfinished run, whether a stop request
                          \* arrived after its last check of the active flag
    successor,            \* history: per unfinished run, the task of the
                          \* latest session configured after the run
                          \* started, 0 if none
    prep                  \* the generated item in preparation: the options and
                          \* index as generated, the current option list and
                          \* where each of its elements came from

vars == <<AUTHORIZED_USER_IDS, poll_conv, dailyquiz_conv, user_data, chat_keys,
          chat_data, tasks, cpu, tq, published, jobs, stop_calls, out, event,
          earned, stopmark, owner, disturbed, stop_pending, successor, prep>>

convVars == <<poll_conv, dailyquiz_conv, user_data>>
chatVars == <<chat_keys, chat_data>>
runVars == <<tasks, cpu, tq>>
pollVars == <<published, jobs, stop_calls>>
histVars == <<earned, stopmark, owner, disturbed, stop_pending, successor>>

EmptyMap == [p \in {} |-> 0]

\* dict[k] = v on a map
MapPut(f, k, v) == [x \in (DOMAIN f) \cup {k} |-> IF x = k THEN v ELSE f[x]]

EmptyUserData == [keys |-> {}, question |-> <<>>, options |-> <<>>]

EmptyChatData ==
    [dailyquiz_topic |-> <<>>, dailyquiz_count |-> 0, dailyquiz_active |-> FALSE,
     dailyquiz_scores |-> <<>>, dailyquiz_polls |-> EmptyMap]

\* A message sent with send_message: the kind of text, and for a leaderboard
\* its lines (user_id, score) in the order sent.
Msg(text) == [text |-> text, lines |-> <<>>]

\* op: the handler or task step; who: the user or run; poll_id: the poll
\* concerned (0 if none; the task slot for a completed configuration); ok:
\* the outcome of the transport call or of the handler's validation.
Event(op, who, poll_id, ok) ==
    [op |-> op, who |-> who, poll_id |-> poll_id, ok |-> ok]

NoEvent == Event("init", 0, 0, TRUE)

\* The locals of a task: count, the loop index i and correct_index are kept
\* while they are live (i until the loop is left, correct_index across the
\* await of send_poll) and are 0 otherwise.
NoTask == [pc |-> "none", count |-> 0, i |-> 0, correct_index |-> 0]

Init ==
    /\ AUTHORIZED_USER_IDS = {}
    /\ poll_conv = [u \in Operators |-> END]
    /\ dailyquiz_conv = [u \in Operators |-> END]
    /\ user_data = [u \in Operators |-> EmptyUserData]
    /\ chat_keys = {}
    /\ chat_data = EmptyChatData
    /\ tasks = [r \in Runs |-> NoTask]
    /\ cpu = 0
    /\ tq = 0
    /\ published = <<>>
    /\ jobs = {}
    /\ stop_calls = [p \in PollIds |-> 0]
    /\ out = <<>>
    /\ event = NoEvent
    /\ earned = [r \in Runs |-> [u \in Users |-> 0]]
    /\ stopmark = [r \in Runs |-> 0]
    /\ owner = [p \in PollIds |-> 0]
    /\ disturbed = [r \in Runs |-> FALSE]
    /\ stop_pending = [r \in Runs |-> FALSE]
    /\ successor = [r \in Runs |-> 0]
    /\ prep = NoPrep

(* --------------------------- the transport ----------------------------- *)
\* Whether the transport can still create a poll in this behaviour.
CanPublish == Len(published) < MaxPolls

\* The record the transport keeps of one send_poll call that succeeded.
PollRecord(path, correct, noptions) ==
    [path |-> path, correct_option_id |-> correct, noptions |-> noptions]

\* The record of a poll sent by the authoring flow; it also keeps the
\* question and the options that were handed to send_poll (lines 334-341).
AuthoredPoll(question, options, index) ==
    [path |-> "poll", correct_option_id |-> index, noptions |-> Len(options),
     question |-> Take(question, MaxQuestionLen), options |-> options]

\* context.job_queue.run_once(close_poll, POLL_DURATION, data={... message_id})
CloseJob(message_id) == [message_id |-> message_id, when |-> POLL_DURATION]

\* Polls published by run r.
PollsOf(r) == { p \in PollIds : owner[p] = r }

(* ---------------------------- chat_data -------------------------------- *)
\* context.chat_data.get("dailyquiz_active", True)
ActiveGet ==
    IF "dailyquiz_active" \in chat_keys THEN chat_data.dailyquiz_active ELSE TRUE

\* context.chat_data.get("dailyquiz_polls", {})
PollsGet ==
    IF "dailyquiz_polls" \in chat_keys THEN chat_data.dailyquiz_polls ELSE EmptyMap

\* context.chat_data.get("dailyquiz_scores", {})
ScoresGet ==
    IF "dailyquiz_scores" \in chat_keys THEN chat_data.dailyquiz_scores ELSE <<>>

\* The scores dict is a sequence of entries in insertion order.
HasScore(scores, u) == \E k \in 1..Len(scores) : scores[k].user_id = u

\* scores.get(user_id, 0)
ScoreOf(scores, u) ==
    IF HasScore(scores, u)
    THEN scores[CHOOSE k \in 1..Len(scores) : scores[k].user_id = u].score
    ELSE 0

\* A ledger that forgets every other participant when it credits one.
ScoreReplace(scores, u) == <<[user_id |-> u, score |-> ScoreOf(scores, u) + 1]>>

\* scores[user_id] = scores.get(user_id, 0) + 1
ScoreIncrement(scores, u) ==
    IF HasScore(scores, u)
    THEN [k \in 1..Len(scores) |->
            IF scores[k].user_id = u
            THEN [scores[k] EXCEPT !.score = @ + 1] ELSE scores[k]]
    ELSE Append(scores, [user_id |-> u, score |-> 1])

\* sorted(scores.items(), key=lambda item: item[1], reverse=True): stable, so
\* entries with equal scores keep their insertion order.
RECURSIVE InsertByScore(_, _)
InsertByScore(sorted, e) ==
    IF sorted = <<>> THEN <<e>>
    ELSE IF Head(sorted).score >= e.score
         THEN <<Head(sorted)>> \o InsertByScore(Tail(sorted), e)
         ELSE <<e>> \o sorted

RECURSIVE SortedByScore(_)
SortedByScore(scores) ==
    IF scores = <<>> THEN <<>>
    ELSE InsertByScore(SortedByScore(SubSeq(scores, 1, Len(scores) - 1)),
                       scores[Len(scores)])

(* ----------------------------- dispatch -------------------------------- *)
\* A dispatcher that a sleeping run holds up, as a blocking sleep would.
HandlerFreeNoSleeper ==
    cpu = 0 /\ tq = 0 /\ \A r \in Runs : tasks[r].pc # "sleeping"

\* Updates are handled one at a time: a handler starts when no task is inside
\* an await-free section and no earlier handler call is still running.
HandlerFree == cpu = 0 /\ tq = 0

(* ------------------------- personal commands --------------------------- *)
\* /auth <arg>: arg = <<>> stands for a command without arguments.
auth(u, arg) ==
    /\ HandlerFree
    /\ IF arg # <<>> /\ arg = ACCESS_CODE
       THEN /\ AUTHORIZED_USER_IDS' = AUTHORIZED_USER_IDS \cup {u}
            /\ out' = <<Msg("auth_ok")>>
            /\ event' = Event("auth", u, 0, TRUE)
       ELSE /\ UNCHANGED AUTHORIZED_USER_IDS
            /\ out' = <<Msg("auth_invalid")>>
            /\ event' = Event("auth", u, 0, FALSE)
    /\ UNCHANGED <<prep, convVars, chatVars, runVars, pollVars, histVars>>

(* ---------------------- poll-authoring conversation -------------------- *)
\* The check at the entry of /poll.
PollEntryAllowed(u) == u \in AUTHORIZED_USER_IDS

start_poll_channel(u) ==
    /\ HandlerFree
    /\ poll_conv[u] = END
    /\ IF ~PollEntryAllowed(u)
       THEN /\ out' = <<Msg("not_authorized")>>
            /\ event' = Event("start_poll_channel", u, 0, FALSE)
            /\ UNCHANGED poll_conv
       ELSE /\ out' = <<Msg("ask_anonymous")>>
            /\ event' = Event("start_poll_channel", u, 0, TRUE)
            /\ poll_conv' = [poll_conv EXCEPT ![u] = POLL_TYPE]
    /\ UNCHANGED <<prep, AUTHORIZED_USER_IDS, dailyquiz_conv, user_data, chatVars,
                   runVars, pollVars, histVars>>

\* A test of the text as typed.
PollTypeAcceptedAsTyped(text) == text \in { <<"y", "e", "s">>, <<"n", "o">> }

\* user_input in ['yes', 'no'] after strip() and lower()
PollTypeAccepted(text) == Lower(Strip(text)) \in { <<"y", "e", "s">>, <<"n", "o">> }

receive_poll_type_channel(u, text) ==
    /\ HandlerFree
    /\ poll_conv[u] = POLL_TYPE
    /\ IF ~PollTypeAccepted(text)
       THEN /\ out' = <<Msg("answer_yes_or_no")>>
            /\ event' = Event("receive_poll_type_channel", u, 0, FALSE)
            /\ UNCHANGED <<poll_conv, user_data>>
       ELSE /\ user_data' = [user_data EXCEPT ![u].keys = @ \cup {"is_anonymous"}]
            /\ out' = <<Msg("ask_question")>>
            /\ event' = Event("receive_poll_type_channel", u, 0, TRUE)
            /\ poll_conv' = [poll_conv EXCEPT ![u] = POLL_QUESTION]
    /\ UNCHANGED <<prep, AUTHORIZED_USER_IDS, dailyquiz_conv, chatVars, runVars,
                   pollVars, histVars>>

receive_question_channel(u, text) ==
    /\ HandlerFree
    /\ poll_conv[u] = POLL_QUESTION
    /\ user_data' = [user_data EXCEPT ![u].keys = @ \cup {"question"},
                                      ![u].question = Strip(text)]
    /\ out' = <<Msg("ask_options")>>
    /\ event' = Event("receive_question_channel", u, 0, TRUE)
    /\ poll_conv' = [poll_conv EXCEPT ![u] = POLL_OPTIONS]
    /\ UNCHANGED <<prep, AUTHORIZED_USER_IDS, dailyquiz_conv, chatVars, runVars,
                   pollVars, histVars>>

\* The entries with their blanks kept.
ParseOptionsKeepBlank(text) ==
    [k \in 1..Len(Split(text, ",")) |-> Strip(Split(text, ",")[k])]

\* [opt.strip() for opt in text.split(',') if opt.strip()]
ParseOptions(text) == NonBlankStripped(Split(text, ","))

receive_options_channel(u, text) ==
    /\ HandlerFree
    /\ poll_conv[u] = POLL_OPTIONS
    /\ LET options == ParseOptions(text)
       IN  IF Len(options) < 2
           THEN /\ out' = <<Msg("need_2_options")>>
                /\ event' = Event("receive_options_channel", u, 0, FALSE)
                /\ UNCHANGED <<poll_conv, user_data>>
           ELSE /\ user_data' =
                      [user_data EXCEPT ![u].keys = @ \cup {"options"},
                                        ![u].options = Take(options, MaxPollOptions)]
                /\ out' = <<Msg("ask_correct")>>
                /\ event' = Event("receive_options_channel", u, 0, TRUE)
                /\ poll_conv' = [poll_conv EXCEPT ![u] = POLL_CORRECT]
    /\ UNCHANGED <<prep, AUTHORIZED_USER_IDS, dailyquiz_conv, chatVars, runVars,
                   pollVars, histVars>>

\* An index taken as typed, without the step to 0-based.
CorrectIndexInputAsTyped(u, text) ==
    LET n == IntParse(text)
    IN  IF n.ok /\ "options" \in user_data[u].keys
             /\ n.val >= 0 /\ n.val < Len(user_data[u].options)
        THEN [ok |-> TRUE, val |-> n.val]
        ELSE [ok |-> FALSE, val |-> 0]

\* A range check that admits the position one past the last option.
CorrectIndexInputPastEnd(u, text) ==
    LET n == IntParse(text)
        index == n.val - 1
    IN  IF n.ok /\ "options" \in user_data[u].keys
             /\ index >= 0 /\ index <= Len(user_data[u].options)
        THEN [ok |-> TRUE, val |-> index]
        ELSE [ok |-> FALSE, val |-> 0]

\* The first try block of receive_correct_option_channel: the 0-based index,
\* or ok = FALSE when int() raises, options is missing or the index is out of
\* range.
CorrectIndexInput(u, text) ==
    LET n == IntParse(text)
        index == n.val - 1
    IN  IF n.ok /\ "options" \in user_data[u].keys
             /\ index >= 0 /\ index < Len(user_data[u].options)
        THEN [ok |-> TRUE, val |-> index]
        ELSE [ok |-> FALSE, val |-> 0]

\* The job queue after a poll was published by one of the handlers that
\* schedule its closure.
JobsAfterPublish(message_id) == jobs \cup {CloseJob(message_id)}

\* A handler that stays silent when send_poll raises.
SilentFailure == <<>>

\* The reply of the except branch (lines 347-350).
PollFailureReply == <<Msg("failed_to_create_poll")>>

\* ok: whether bot.send_poll returns a message (TRUE) or raises (FALSE).
receive_correct_option_channel(u, text, ok) ==
    /\ HandlerFree
    /\ poll_conv[u] = POLL_CORRECT
    /\ ok => CanPublish
    /\ LET index == CorrectIndexInput(u, text)
           pid == Len(published) + 1
       IN  IF ~index.ok
           THEN /\ out' = <<Msg("enter_valid_option_number")>>
                /\ event' = Event("receive_correct_option_channel", u, 0, FALSE)
                /\ UNCHANGED <<poll_conv, user_data, pollVars>>
           ELSE /\ IF ok
                   THEN /\ published' =
                             Append(published,
                                    AuthoredPoll(user_data[u].question,
                                                 user_data[u].options,
                                                 index.val))
                        /\ jobs' = JobsAfterPublish(pid)
                        /\ out' = <<>>
                        /\ event' = Event("publish_poll", u, pid, TRUE)
                   ELSE /\ out' = PollFailureReply
                        /\ event' = Event("publish_poll", u, 0, FALSE)
                        /\ UNCHANGED <<published, jobs>>
                /\ user_data' = [user_data EXCEPT ![u] = EmptyUserData]
                /\ poll_conv' = [poll_conv EXCEPT ![u] = END]
                /\ UNCHANGED stop_calls
    /\ UNCHANGED <<prep, AUTHORIZED_USER_IDS, dailyquiz_conv, chatVars, runVars,
                   histVars>>

(* ------------------------ auto quiz and /TQ ---------------------------- *)
\* handle_auto_quiz, lines 389-405: defaulted index, truncation, shuffle.
PrepareAuto(item, k) ==
    LET ci == ClampIndex(item.options.val, item.ci)
        options == TruncateAll(item.options.val)
        original_correct_option == options[ci + 1]
        shuffled == Shuffled(options, k)
    IN  [options |-> shuffled,
         correct_index |-> IndexOf(shuffled, original_correct_option)]

\* handle_TQ, lines 761-772: defaulted index and shuffle.
PrepareTQ(item, k) ==
    LET ci == ClampIndex(item.options.val, GetIndexDefault0(item))
        original_correct_option == item.options.val[ci + 1]
        shuffled == Shuffled(item.options.val, k)
    IN  [options |-> shuffled,
         correct_index |-> IndexOf(shuffled, original_correct_option)]

\* text.endswith("?")
EndsWithQuestionMark(text) == text # <<>> /\ text[Len(text)] = "?"

handle_auto_quiz(u, text, item, k, ok) ==
    /\ HandlerFree
    /\ poll_conv[u] = END
    /\ dailyquiz_conv[u] = END
    /\ ok => CanPublish
    /\ LET pid == Len(published) + 1
           quiz == PrepareAuto(item, k)
       IN  IF u \notin AUTHORIZED_USER_IDS \/ ~EndsWithQuestionMark(Strip(text))
           THEN /\ out' = <<>>
                /\ event' = Event("handle_auto_quiz", u, 0, FALSE)
                /\ UNCHANGED pollVars
           ELSE IF item.kind \in {"raise", "nondict"}
           THEN \* the exception leaves the handler
                /\ out' = <<>>
                /\ event' = Event("handle_auto_quiz_raised", u, 0, FALSE)
                /\ UNCHANGED pollVars
           ELSE IF item.kind = "badjson"
           THEN /\ out' = <<Msg("failed_to_generate_quiz_poll")>>
                /\ event' = Event("handle_auto_quiz_rejected", u, 0, FALSE)
                /\ UNCHANGED pollVars
           ELSE IF ~OptionsOk(item)
           THEN /\ out' = <<Msg("not_exactly_4_options")>>
                /\ event' = Event("handle_auto_quiz_rejected", u, 0, FALSE)
                /\ UNCHANGED pollVars
           ELSE IF ok
           THEN /\ published' =
                     Append(published,
                            PollRecord("auto", quiz.correct_index,
                                       Len(quiz.options)))
                /\ jobs' = JobsAfterPublish(pid)
                /\ out' = <<>>
                /\ event' = Event("publish_auto", u, pid, TRUE)
                /\ UNCHANGED stop_calls
           ELSE /\ out' = <<Msg("failed_to_send_quiz_poll")>>
                /\ event' = Event("publish_auto", u, 0, FALSE)
                /\ UNCHANGED pollVars
    /\ UNCHANGED <<prep, AUTHORIZED_USER_IDS, convVars, chatVars, runVars, histVars>>

\* /TQ with nq extracted questions (nq = 0: nothing follows the command).
\* The handler then works through its questions, one step per question,
\* while the dispatcher holds back every later update.
handle_TQ(u, nq) ==
    /\ HandlerFree
    /\ poll_conv[u] = END
    /\ IF u \notin AUTHORIZED_USER_IDS
       THEN /\ out' = <<>>
            /\ event' = Event("handle_TQ", u, 0, FALSE)
            /\ UNCHANGED tq
       ELSE IF nq = 0
       THEN /\ out' = <<Msg("provide_questions_after_TQ")>>
            /\ event' = Event("handle_TQ", u, 0, FALSE)
            /\ UNCHANGED tq
       ELSE /\ out' = <<>>
            /\ event' = Event("handle_TQ", u, 0, TRUE)
            /\ tq' = nq
    /\ UNCHANGED <<prep, AUTHORIZED_USER_IDS, convVars, chatVars, tasks, cpu,
                   pollVars, histVars>>

\* One pass of the loop of handle_TQ (lines 733-792).
handle_TQ_question(item, k, ok) ==
    /\ cpu = 0
    /\ tq > 0
    /\ ok => CanPublish
    /\ LET pid == Len(published) + 1
           quiz == PrepareTQ(item, k)
       IN  IF item.kind \in {"raise", "nondict"}
           THEN \* the exception ends the whole handler call
                /\ tq' = 0
                /\ out' = <<>>
                /\ event' = Event("handle_TQ_raised", 0, 0, FALSE)
                /\ UNCHANGED pollVars
           ELSE IF item.kind = "badjson" \/ ~OptionsOk(item)
           THEN /\ tq' = tq - 1
                /\ out' = <<>>
                /\ event' = Event("handle_TQ_skipped", 0, 0, FALSE)
                /\ UNCHANGED pollVars
           ELSE IF ok
           THEN /\ tq' = tq - 1
                /\ published' =
                     Append(published,
                            PollRecord("TQ", quiz.correct_index,
                                       Len(quiz.options)))
                /\ jobs' = JobsAfterPublish(pid)
                /\ out' = <<>>
                /\ event' = Event("publish_TQ", 0, pid, TRUE)
                /\ UNCHANGED stop_calls
           ELSE /\ tq' = tq - 1
                /\ out' = <<>>
                /\ event' = Event("publish_TQ", 0, 0, FALSE)
                /\ UNCHANGED pollVars
    /\ UNCHANGED <<prep, AUTHORIZED_USER_IDS, convVars, chatVars, tasks, cpu,
                   histVars>>

(* -------------------- daily-quiz configuration flow -------------------- *)
\* The entry of /dailyquiz: the prompt for the topic, for every caller.
start_dailyquiz(u) ==
    /\ HandlerFree
    /\ poll_conv[u] = END
    /\ dailyquiz_conv[u] = END
    /\ out' = <<Msg("enter_quiz_topic")>>
    /\ event' = Event("start_dailyquiz", u, 0, TRUE)
    /\ dailyquiz_conv' = [dailyquiz_conv EXCEPT ![u] = DAILYQUIZ_TOPIC]
    /\ UNCHANGED <<prep, AUTHORIZED_USER_IDS, poll_conv, user_data, chatVars,
                   runVars, pollVars, histVars>>

receive_dailyquiz_topic(u, text) ==
    /\ HandlerFree
    /\ poll_conv[u] = END
    /\ dailyquiz_conv[u] = DAILYQUIZ_TOPIC
    /\ chat_keys' = chat_keys \cup {"dailyquiz_topic"}
    /\ chat_data' = [chat_data EXCEPT !.dailyquiz_topic = Strip(text)]
    /\ out' = <<Msg("number_of_questions")>>
    /\ event' = Event("receive_dailyquiz_topic", u, 0, TRUE)
    /\ dailyquiz_conv' = [dailyquiz_conv EXCEPT ![u] = DAILYQUIZ_COUNT]
    /\ UNCHANGED <<prep, AUTHORIZED_USER_IDS, poll_conv, user_data, runVars,
                   pollVars, histVars>>

\* A session that keeps the active flag it finds.
SessionCreatedKeepingFlag(count) ==
    [chat_data EXCEPT !.dailyquiz_count = count,
                      !.dailyquiz_scores = <<>>,
                      !.dailyquiz_polls = EmptyMap]

\* A session that keeps the scores and the poll map it finds.
SessionCreatedKeeping(count) ==
    [chat_data EXCEPT !.dailyquiz_count = count, !.dailyquiz_active = TRUE]

\* chat_data after lines 447-450.
SessionCreated(count) ==
    [chat_data EXCEPT !.dailyquiz_count = count,
                      !.dailyquiz_active = TRUE,
                      !.dailyquiz_scores = <<>>,
                      !.dailyquiz_polls = EmptyMap]

\* A run_dailyquiz task that has executed its first statement and has not
\* ended.
Running(r) == tasks[r].pc \in {"loop", "publishing", "sleeping", "sending"}

\* asyncio.create_task(run_dailyquiz(context)): the task exists and has not
\* run yet.
NewTask == [NoTask EXCEPT !.pc = "created"]

\* slots: the task slots the specification provides for run_dailyquiz tasks.
receive_dailyquiz_count(u, text, slots) ==
    /\ HandlerFree
    /\ poll_conv[u] = END
    /\ dailyquiz_conv[u] = DAILYQUIZ_COUNT
    /\ LET n == IntParse(text)
       IN  IF ~n.ok
           THEN /\ out' = <<Msg("enter_valid_number")>>
                /\ event' = Event("receive_dailyquiz_count", u, 0, FALSE)
                /\ UNCHANGED <<dailyquiz_conv, chatVars, tasks, successor>>
           ELSE /\ n.val <= MaxCount
                /\ \E r \in slots :
                     /\ tasks[r].pc = "none"
                     /\ \A q \in slots : q < r => tasks[q].pc # "none"
                     /\ tasks' = [tasks EXCEPT ![r] = NewTask]
                     /\ event' = Event("receive_dailyquiz_count", u, r, TRUE)
                     /\ successor' = [q \in Runs |->
                                        IF Running(q) THEN r ELSE successor[q]]
                /\ chat_keys' = chat_keys \cup
                       {"dailyquiz_count", "dailyquiz_active",
                        "dailyquiz_scores", "dailyquiz_polls"}
                /\ chat_data' = SessionCreated(n.val)
                /\ out' = <<Msg("starting_daily_quiz")>>
                /\ dailyquiz_conv' = [dailyquiz_conv EXCEPT ![u] = END]
    /\ UNCHANGED <<prep, AUTHORIZED_USER_IDS, poll_conv, user_data, cpu, tq,
                   pollVars, earned, stopmark, owner, disturbed, stop_pending>>

\* A stop request that cancels the pending close jobs.
JobsAfterStopCancelled == {}

\* The job queue after stop_dailyquiz (456-460), which does not touch it.
JobsAfterStop == jobs

\* /stop, as the fallback of the configuration flow or as the global command.
\* History: a run in its interval wait that has published k polls, 0 < k <
\* count, is marked with k.
stop_dailyquiz(u) ==
    /\ HandlerFree
    /\ poll_conv[u] = END
    /\ chat_keys' = chat_keys \cup {"dailyquiz_active"}
    /\ chat_data' = [chat_data EXCEPT !.dailyquiz_active = FALSE]
    /\ out' = <<Msg("daily_quiz_stopped")>>
    /\ event' = Event("stop_dailyquiz", u, 0, TRUE)
    /\ dailyquiz_conv' = [dailyquiz_conv EXCEPT ![u] = END]
    /\ stopmark' = [r \in Runs |->
                      IF /\ tasks[r].pc = "sleeping"
                         /\ stopmark[r] = 0
                         /\ Cardinality(PollsOf(r)) < tasks[r].count
                      THEN Cardinality(PollsOf(r)) ELSE stopmark[r]]
    /\ disturbed' = [r \in Runs |-> disturbed[r] \/ tasks[r].pc # "none"]
    /\ stop_pending' = [r \in Runs |->
                          \/ stop_pending[r]
                          \/ tasks[r].pc \in {"publishing", "sleeping"}]
    /\ jobs' = JobsAfterStop
    /\ UNCHANGED <<prep, AUTHORIZED_USER_IDS, poll_conv, user_data, runVars,
                   published, stop_calls, earned, owner, successor>>

(* --------------------------- run_dailyquiz ----------------------------- *)
\* Positions of a task:
\*   "none"       no task in this slot
\*   "created"    created by create_task, not yet run
\*   "loop"       at the head of the for loop after a continue
\*   "publishing" suspended in await send_poll
\*   "sleeping"   suspended in await asyncio.sleep(QUIZ_INTERVAL)
\*   "sending"    suspended in await send_message(leaderboard)
\* A task that has ended leaves its slot ("none"); the step that ended it is
\* named by the event: "run_finish" (returned after the cleanup of lines
\* 510-512, or ended by an exception of send_message when not ok),
\* "run_returned" (returned at line 466, no topic), "run_raised" (ended by an
\* exception raised inside the loop).

\* context.chat_data.get("dailyquiz_topic"): None is modelled as the empty text.
TopicGet ==
    IF "dailyquiz_topic" \in chat_keys THEN chat_data.dailyquiz_topic ELSE <<>>

\* context.chat_data.get("dailyquiz_count", 25)
CountGet ==
    IF "dailyquiz_count" \in chat_keys THEN chat_data.dailyquiz_count
    ELSE DefaultCount

\* Lines 480-487 once the payload is a JSON object with 4 options: raised is
\* TRUE when options[correct_index] raises IndexError or TypeError.
PrepareDaily(item, k) ==
    LET ci == GetIndexDefault0(item)
        options == item.options.val
        shuffled == Shuffled(options, k)
    IN  IF ~SubscriptOk(options, ci)
        THEN [raised |-> TRUE, options |-> options, correct_index |-> 0]
        ELSE [raised |-> FALSE, options |-> shuffled,
              correct_index |-> IndexOf(shuffled, Subscript(options, ci.val))]

\* A leaderboard in insertion order.
LeaderboardUnsorted == ScoresGet

\* Lines 502-508: the lines of the leaderboard text, best score first.
LeaderboardLines == SortedByScore(ScoresGet)

\* Lines 502-509 up to the await: the loop is left, the leaderboard is built
\* and handed to send_message.
RunLeaveLoop(r, why) ==
    /\ tasks' = [tasks EXCEPT ![r] = [NoTask EXCEPT !.pc = "sending"]]
    /\ out' = IF ScoresGet = <<>> THEN <<Msg("no_correct_answers")>>
              ELSE <<[text |-> "leaderboard", lines |-> LeaderboardLines]>>
    /\ event' = Event(why, r, 0, TRUE)
    /\ cpu' = 0

\* One pass of the for loop, from its head (line 467) with loop index i, up
\* to the next await, to the next pass (continue) or out of the function.
LoopPass(r, count, i, item, k) ==
    LET quiz == PrepareDaily(item, k)
    IN  IF i >= count
        THEN RunLeaveLoop(r, "run_completed")
        ELSE IF ~ActiveGet
        THEN RunLeaveLoop(r, "run_stopped")
        ELSE IF item.kind \in {"raise", "nondict"}
                \/ (item.kind = "dict" /\ OptionsOk(item) /\ quiz.raised)
        THEN \* the exception ends the task
             /\ tasks' = [tasks EXCEPT ![r] = NoTask]
             /\ out' = <<>>
             /\ event' = Event("run_raised", r, 0, FALSE)
             /\ cpu' = 0
        ELSE IF item.kind = "badjson" \/ ~OptionsOk(item)
        THEN \* continue: the next pass starts at once, without a sleep
             /\ tasks' = [tasks EXCEPT ![r] =
                             [pc |-> "loop", count |-> count, i |-> i + 1,
                              correct_index |-> 0]]
             /\ out' = <<>>
             /\ event' = Event("run_skipped", r, 0, FALSE)
             /\ cpu' = r
        ELSE /\ tasks' = [tasks EXCEPT ![r] =
                             [pc |-> "publishing", count |-> count, i |-> i,
                              correct_index |-> quiz.correct_index]]
             /\ out' = <<>>
             /\ event' = Event("run_send_poll", r, 0, TRUE)
             /\ cpu' = 0

\* History: a task that has ended has no marks left.
HistoryAfter(r) ==
    LET ended == tasks'[r].pc = "none"
    IN  /\ earned' = IF ended THEN [earned EXCEPT ![r] = [u \in Users |-> 0]]
                     ELSE earned
        /\ stopmark' = IF ended THEN [stopmark EXCEPT ![r] = 0] ELSE stopmark
        /\ owner' = IF ended
                    THEN [p \in PollIds |-> IF owner[p] = r THEN 0 ELSE owner[p]]
                    ELSE owner
        /\ disturbed' = IF ended THEN [disturbed EXCEPT ![r] = FALSE]
                        ELSE IF event'.op = "run_skipped"
                        THEN [disturbed EXCEPT ![r] = TRUE]
                        ELSE disturbed
        /\ stop_pending' = [stop_pending EXCEPT ![r] = FALSE]
        /\ successor' = IF ended THEN [successor EXCEPT ![r] = 0] ELSE successor

\* The task starts: lines 463-466, then the first pass of the loop.
RunEnter(r, item, k) ==
    /\ cpu = 0
    /\ tasks[r].pc = "created"
    /\ IF TopicGet = <<>>
       THEN /\ tasks' = [tasks EXCEPT ![r] = NoTask]
            /\ out' = <<>>
            /\ event' = Event("run_returned", r, 0, FALSE)
            /\ UNCHANGED cpu
       ELSE LoopPass(r, CountGet, 0, item, k)
    /\ HistoryAfter(r)
    /\ UNCHANGED <<prep, AUTHORIZED_USER_IDS, convVars, chatVars, tq, pollVars>>

\* asyncio.sleep(QUIZ_INTERVAL) is over: the next pass of the loop.
RunWake(r, item, k) ==
    /\ cpu = 0
    /\ tasks[r].pc = "sleeping"
    /\ LoopPass(r, tasks[r].count, tasks[r].i + 1, item, k)
    /\ HistoryAfter(r)
    /\ UNCHANGED <<prep, AUTHORIZED_USER_IDS, convVars, chatVars, tq, pollVars>>

\* The pass that follows a continue.
RunContinue(r, item, k) ==
    /\ cpu = r
    /\ tasks[r].pc = "loop"
    /\ LoopPass(r, tasks[r].count, tasks[r].i, item, k)
    /\ HistoryAfter(r)
    /\ UNCHANGED <<prep, AUTHORIZED_USER_IDS, convVars, chatVars, tq, pollVars>>

\* The job queue after run_dailyquiz published a poll: lines 488-500 schedule
\* nothing.
JobsAfterDailyPublish(message_id) == jobs

\* chat_data["dailyquiz_polls"][poll_id] = correct_index
PollsAfterRecord(poll_id, correct_index) ==
    MapPut(chat_data.dailyquiz_polls, poll_id, correct_index)

\* A task that goes on to its next pass without the sleep.
TaskWithoutSleep(task) ==
    [task EXCEPT !.pc = "loop", !.i = @ + 1, !.correct_index = 0]

\* Line 501, after the try of 488-500 on both outcomes: the task suspends in
\* asyncio.sleep(QUIZ_INTERVAL).
TaskAfterPublish(task) == [task EXCEPT !.pc = "sleeping", !.correct_index = 0]

\* await send_poll returns (ok) or raises (~ok); lines 497-501 up to the sleep.
RunPublishReturn(r, ok) ==
    /\ cpu = 0
    /\ tasks[r].pc = "publishing"
    /\ ok => CanPublish
    /\ LET pid == Len(published) + 1
       IN  IF ok
           THEN /\ published' =
                     Append(published,
                            PollRecord("dailyquiz", tasks[r].correct_index,
                                       NumQuizOptions))
                /\ jobs' = JobsAfterDailyPublish(pid)
                /\ chat_data' =
                     [chat_data EXCEPT !.dailyquiz_polls =
                          PollsAfterRecord(pid, tasks[r].correct_index)]
                /\ owner' = [owner EXCEPT ![pid] = r]
                /\ UNCHANGED disturbed
                /\ event' = Event("publish_dailyquiz", r, pid, TRUE)
           ELSE /\ event' = Event("publish_dailyquiz", r, 0, FALSE)
                /\ disturbed' = [disturbed EXCEPT ![r] = TRUE]
                /\ UNCHANGED <<published, jobs, chat_data, owner>>
    /\ tasks' = [tasks EXCEPT ![r] = TaskAfterPublish(tasks[r])]
    /\ out' = <<>>
    /\ UNCHANGED <<prep, AUTHORIZED_USER_IDS, convVars, chat_keys, cpu, tq,
                   stop_calls, earned, stopmark, stop_pending, successor>>

\* chat_data after lines 510-512.
SessionCleared ==
    [chat_data EXCEPT !.dailyquiz_active = FALSE,
                      !.dailyquiz_polls = EmptyMap,
                      !.dailyquiz_scores = <<>>]

\* await send_message(leaderboard) returns (ok) or raises (~ok).
RunFinish(r, ok) ==
    /\ cpu = 0
    /\ tasks[r].pc = "sending"
    /\ IF ok
       THEN /\ chat_data' = SessionCleared
            /\ chat_keys' = chat_keys \cup
                   {"dailyquiz_active", "dailyquiz_polls", "dailyquiz_scores"}
            /\ event' = Event("run_finish", r, 0, TRUE)
       ELSE /\ event' = Event("run_finish", r, 0, FALSE)
            /\ UNCHANGED chatVars
    /\ tasks' = [tasks EXCEPT ![r] = NoTask]
    /\ HistoryAfter(r)
    /\ out' = <<>>
    /\ UNCHANGED <<prep, AUTHORIZED_USER_IDS, convVars, cpu, tq, pollVars>>

(* ------------------------- poll_answer_handler ------------------------- *)
\* answer.option_ids of a quiz poll: one option, or none after a retraction.
AnswerChoices == { {} } \cup { {n} : n \in 0..(NumQuizOptions - 1) }

\* A handler that credits every answer to a known poll.
AnswerScoresAnyOption(poll_id, option_ids) == poll_id \in DOMAIN PollsGet

\* A handler that credits every answer to an unknown poll.
AnswerScoresUnknown(poll_id, option_ids) ==
    \/ poll_id \notin DOMAIN PollsGet
    \/ PollsGet[poll_id] \in option_ids

\* Whether lines 518-522 reach the increment.
AnswerScores(poll_id, option_ids) ==
    /\ poll_id \in DOMAIN PollsGet
    /\ PollsGet[poll_id] \in option_ids

\* History: the answer is a correct answer to a poll of a quiz run.
AnswerEarns(poll_id, option_ids) ==
    /\ owner[poll_id] # 0
    /\ published[poll_id].correct_option_id \in option_ids

poll_answer_handler(poll_id, user_id, option_ids) ==
    /\ HandlerFree
    /\ IF AnswerScores(poll_id, option_ids)
       THEN /\ ScoreOf(ScoresGet, user_id) < MaxScore
            /\ chat_keys' = chat_keys \cup {"dailyquiz_scores"}
            /\ chat_data' = [chat_data EXCEPT !.dailyquiz_scores =
                                ScoreIncrement(ScoresGet, user_id)]
            /\ event' = Event("poll_answer_handler", user_id, poll_id, TRUE)
       ELSE /\ event' = Event("poll_answer_handler", user_id, poll_id, FALSE)
            /\ UNCHANGED chatVars
    /\ IF AnswerEarns(poll_id, option_ids)
       THEN /\ earned[owner[poll_id]][user_id] < MaxScore
            /\ earned' = [earned EXCEPT ![owner[poll_id]][user_id] = @ + 1]
       ELSE UNCHANGED earned
    /\ out' = <<>>
    /\ UNCHANGED <<prep, AUTHORIZED_USER_IDS, convVars, runVars, pollVars, stopmark,
                   owner, disturbed, stop_pending, successor>>

(* ----------------------------- close_poll ------------------------------ *)
\* A job queue that keeps a close job whose stop_poll call failed.
JobsAfterCloseRetry(job, ok) == IF ok THEN jobs \ {job} ELSE jobs

\* The job queue after a close_poll job has run, whatever stop_poll did.
JobsAfterClose(job, ok) == jobs \ {job}

\* ok: whether bot.stop_poll returns (TRUE) or raises (FALSE).
close_poll(job, ok) ==
    /\ cpu = 0
    /\ job \in jobs
    /\ jobs' = JobsAfterClose(job, ok)
    /\ stop_calls' = [stop_calls EXCEPT ![job.message_id] = @ + 1]
    /\ out' = <<>>
    /\ event' = Event("close_poll", 0, job.message_id, ok)
    /\ UNCHANGED <<prep, AUTHORIZED_USER_IDS, convVars, chatVars, runVars, published,
                   histVars>>

(* --------------------------- specifications ---------------------------- *)
\* Authorization and the poll-authoring conversation.
AuthoringStep ==
    \/ \E u \in Operators, arg \in AuthArgs : auth(u, arg)
    \/ \E u \in Operators : start_poll_channel(u)
    \/ \E u \in Operators, text \in PollTypeTexts : receive_poll_type_channel(u, text)
    \/ \E u \in Operators, text \in QuestionTexts : receive_question_channel(u, text)
    \/ \E u \in Operators, text \in OptionsTexts : receive_options_channel(u, text)
    \/ \E u \in Operators, text \in CorrectTexts, ok \in BOOLEAN :
          receive_correct_option_channel(u, text, ok)

\* The auto quiz, the /TQ batch and the deferred closes.
GeneratedPollStep(items, shifts) ==
    \/ \E u \in Operators, text \in AutoTexts, item \in items, k \in shifts,
          ok \in BOOLEAN : handle_auto_quiz(u, text, item, k, ok)
    \/ \E u \in Operators, nq \in 0..MaxTQ : handle_TQ(u, nq)
    \/ \E item \in items, k \in shifts, ok \in BOOLEAN :
          handle_TQ_question(item, k, ok)
    \/ \E job \in jobs, ok \in BOOLEAN : close_poll(job, ok)

\* The daily-quiz configuration conversation and the stop request.
ConfigureStep(slots, topics, counts) ==
    \/ \E u \in Operators : start_dailyquiz(u)
    \/ \E u \in Operators, text \in topics : receive_dailyquiz_topic(u, text)
    \/ \E u \in Operators, text \in counts :
          receive_dailyquiz_count(u, text, slots)
    \/ \E u \in Operators : stop_dailyquiz(u)

\* The run_dailyquiz tasks.
RunStep(slots, items, shifts) ==
    \/ \E r \in slots, item \in items, k \in shifts : RunEnter(r, item, k)
    \/ \E r \in slots, ok \in BOOLEAN : RunPublishReturn(r, ok)
    \/ \E r \in slots, item \in items, k \in shifts : RunWake(r, item, k)
    \/ \E r \in slots, item \in items, k \in shifts : RunContinue(r, item, k)
    \/ \E r \in slots, ok \in BOOLEAN : RunFinish(r, ok)

AnswerStep(users, choices) ==
    \E p \in PollIds, u \in users, ids \in choices :
        poll_answer_handler(p, u, ids)

\* The payloads whose options are missing, not a list, or a list that does
\* not have 4 elements.
DefectiveOptionsItems ==
    { item \in GenItems :
        /\ item.kind = "dict"
        /\ item.options.tag # "list" \/ Len(item.options.val) # NumQuizOptions }

\* A small set of payloads: unparseable text, defective options, and 4
\* options with the correct_index 0, 4 or missing.
FewItems ==
    { item \in GenItems :
        \/ item.kind = "badjson"
        \/ item \in DefectiveOptionsItems
        \/ item.kind = "dict" /\ OptionsOk(item) /\ item.ci.tag = "int"
           /\ item.ci.val \in {0, 4}
        \/ item.kind = "dict" /\ OptionsOk(item) /\ item.ci.tag = "missing" }

(* ---------------- preparation of a generated item -------------------- *)
\* The statements that turn a validated payload (4 options, index in
\* [0,4)) into the option list and correct index handed to send_poll, one
\* step per statement.  path "auto" is handle_auto_quiz, which truncates
\* first; path "plain" is handle_TQ and run_dailyquiz.
botVars == <<AUTHORIZED_USER_IDS, convVars, chatVars, runVars, pollVars, out,
             event, histVars>>

\* The payload has passed the checks of options and correct_index.
Validated(path, options, ci) ==
    /\ prep.stage = "none"
    /\ prep' = [NoPrep EXCEPT !.stage = "generated", !.path = path,
                              !.given = options, !.ci = ci,
                              !.options = options,
                              !.origin = [j \in 1..Len(options) |-> j]]
    /\ UNCHANGED botVars

\* A truncation that leaves long options out.
TruncateDropLong(opts) ==
    SelectSeq(opts, LAMBDA option : Len(option) <= MaxOptionLen)

\* Lines 393-400: options = truncated_options
TruncatedOptions(opts) == TruncateAll(opts)

TruncateOptions ==
    /\ prep.stage = "generated"
    /\ prep.path = "auto"
    /\ prep' = [prep EXCEPT !.stage = "truncated",
                            !.options = TruncatedOptions(prep.options)]
    /\ UNCHANGED botVars

\* original_correct_option = options[correct_index]
PickCorrectOption ==
    /\ \/ prep.stage = "truncated"
       \/ prep.stage = "generated" /\ prep.path = "plain"
    /\ prep' = [prep EXCEPT !.stage = "picked",
                            !.before = prep.options,
                            !.original_correct_option =
                                prep.options[prep.ci + 1]]
    /\ UNCHANGED botVars

\* random.shuffle(options)
ShuffleOptions(perm) ==
    /\ prep.stage = "picked"
    /\ prep' = [prep EXCEPT !.stage = "shuffled",
                            !.options = Permuted(prep.options, perm),
                            !.origin = Permuted(prep.origin, perm)]
    /\ UNCHANGED botVars

\* An index that is not recomputed after the shuffle.
IndexOfFirst(opts, x) == 0

\* correct_index = options.index(original_correct_option)
RecomputedIndex(opts, x) == IndexOf(opts, x)

RecomputeIndex ==
    /\ prep.stage = "shuffled"
    /\ prep' = [prep EXCEPT !.stage = "indexed",
                            !.correct_index =
                                RecomputedIndex(prep.options,
                                                prep.original_correct_option)]
    /\ UNCHANGED botVars

\* The quiz session with one run_dailyquiz task at a time: configuration,
\* the run, stop requests and answers.
Next ==
    \/ ConfigureStep({1}, TopicTexts, CountTexts)
    \/ RunStep({1}, GenItems, Shifts)
    \/ AnswerStep(Users, AnswerChoices)

Spec == Init /\ [][Next]_vars

\* The quiz session with overlapping run_dailyquiz tasks: a configuration may
\* complete while an earlier run is still alive.
NextOverlap ==
    \/ ConfigureStep(Runs, {<<"H">>}, {<<"2">>, <<"x">>})
    \/ RunStep(Runs, FewItems, {0})
    \/ AnswerStep({1}, {{0}, {1}})

SpecOverlap == Init /\ [][NextOverlap]_vars

\* Every publishing path with the deferred closes and the answers: the
\* authoring flow, the auto quiz, the /TQ batch and one quiz run.
NextPublish ==
    \/ AuthoringStep
    \/ GeneratedPollStep(FewItems, {0})
    \/ ConfigureStep({1}, {<<"H">>}, {<<"2">>, <<"x">>})
    \/ RunStep({1}, FewItems, {0})
    \/ AnswerStep({1}, {{0}, {1}})

SpecPublish == Init /\ [][NextPublish]_vars

\* The authoring flow alone, with a question longer than send_poll takes and
\* more options than the flow keeps, and the deferred closes of its polls.
NextAuthoring ==
    \/ AuthoringStep
    \/ \E u \in Operators : receive_question_channel(u, LongQuestion)
    \/ \E u \in Operators : receive_options_channel(u, ManyOptionsText)
    \/ \E u \in Operators, text \in ManyCorrectTexts, ok \in BOOLEAN :
          receive_correct_option_channel(u, text, ok)
    \/ \E job \in jobs, ok \in BOOLEAN : close_poll(job, ok)

SpecAuthoring == Init /\ [][NextAuthoring]_vars

\* The preparation of one generated item, for every option list, correct
\* index and shuffle order.
NextShuffle ==
    \/ \E path \in {"auto", "plain"}, options \in OptionLists,
          ci \in 0..(NumQuizOptions - 1) : Validated(path, options, ci)
    \/ TruncateOptions
    \/ PickCorrectOption
    \/ \E perm \in Orders(NumQuizOptions) : ShuffleOptions(perm)
    \/ RecomputeIndex

SpecShuffle == Init /\ [][NextShuffle]_vars

(* ------------------------------ properties ----------------------------- *)
\* The steps in which a run leaves its loop and hands the leaderboard to
\* send_message.
RenderOps == {"run_completed", "run_stopped"}

\* The steps that end with the outcome of a send_poll call.
PublishOps == {"publish_poll", "publish_auto", "publish_TQ", "publish_dailyquiz"}

\* The entries of the leaderboard carried by a message list.
BoardOf(messages) ==
    IF messages # <<>> /\ messages[1].text = "leaderboard"
    THEN { messages[1].lines[k] : k \in 1..Len(messages[1].lines) }
    ELSE {}

\* The entries a leaderboard of run r has when it reflects exactly the correct
\* answers given to the polls of r.
EarnedBoard(r) ==
    { [user_id |-> u, score |-> earned[r][u]] :
        u \in { v \in Users : earned[r][v] > 0 } }

\* C1: a run that was in its interval wait after its k-th poll (0 < k < count)
\* when a stop request arrived publishes exactly k polls in total, and the
\* leaderboard it sends holds exactly the scores earned by answers to its
\* polls.
C1_StopSemantics ==
    [][\A r \in Runs :
          /\ stopmark'[r] > 0 => Cardinality(PollsOf(r)') = stopmark'[r]
          /\ (stopmark[r] > 0 /\ event'.op \in RenderOps /\ event'.who = r)
               => BoardOf(out') = EarnedBoard(r)]_vars

\* A run whose next step is a pass of the loop.
InLoop(r) ==
    \/ tasks[r].pc \in {"loop", "publishing", "sleeping"}
    \/ tasks[r].pc = "created" /\ TopicGet # <<>>

\* C2: no generated item and no publish outcome ends a run inside its loop:
\* a run whose next step is a pass of the loop is alive after every step, in
\* the loop still or sending its leaderboard.
C2_NeverAborts ==
    [][\A r \in Runs : InLoop(r) => tasks'[r].pc # "none"]_vars

\* C3: an answer to a poll of the poll map that contains the recorded correct
\* index raises the score of its participant by exactly 1 (to 1 without an
\* earlier entry) and changes no other participant's entry and not the map.
C3_CorrectAnswer ==
    [][\A p \in PollIds, u \in Users, ids \in AnswerChoices :
          (/\ poll_answer_handler(p, u, ids)
           /\ p \in DOMAIN PollsGet
           /\ PollsGet[p] \in ids)
          => /\ ScoreOf(ScoresGet', u) = ScoreOf(ScoresGet, u) + 1
             /\ HasScore(ScoresGet', u)
             /\ \A v \in Users \ {u} :
                   /\ HasScore(ScoresGet', v) = HasScore(ScoresGet, v)
                   /\ ScoreOf(ScoresGet', v) = ScoreOf(ScoresGet, v)
             /\ Len(ScoresGet') = Len(ScoresGet)
                                    + (IF HasScore(ScoresGet, u) THEN 0 ELSE 1)
             /\ PollsGet' = PollsGet]_vars

\* A correct answer was credited to a participant while another participant
\* had a score.
C3_Witness ==
    /\ event.op = "poll_answer_handler"
    /\ event.ok
    /\ ScoreOf(ScoresGet, event.who) = 1
    /\ \E v \in Users \ {event.who} : ScoreOf(ScoresGet, v) >= 1

\* C4: an answer to a poll that is not a key of the poll map leaves the scores
\* and the poll map as they were.
C4_UnknownPoll ==
    [][(event'.op = "poll_answer_handler"
          /\ event'.poll_id \notin DOMAIN PollsGet)
          => /\ ScoresGet' = ScoresGet
             /\ PollsGet' = PollsGet
             /\ UNCHANGED chatVars]_vars

\* An answer to a poll of the manual authoring flow was handled while the
\* session had a poll and a score.
C4_Witness ==
    /\ event.op = "poll_answer_handler"
    /\ ~event.ok
    /\ event.poll_id <= Len(published)
    /\ published[event.poll_id].path = "poll"
    /\ event.poll_id \notin DOMAIN PollsGet
    /\ PollsGet # EmptyMap
    /\ ScoresGet # <<>>

\* C5: an answer to a poll of the poll map that does not contain the recorded
\* correct index creates, changes and removes no score entry and leaves the
\* poll map as it was.
C5_WrongAnswer ==
    [][\A p \in PollIds, u \in Users, ids \in AnswerChoices :
          (/\ poll_answer_handler(p, u, ids)
           /\ p \in DOMAIN PollsGet
           /\ PollsGet[p] \notin ids)
          => /\ ScoresGet' = ScoresGet
             /\ PollsGet' = PollsGet
             /\ UNCHANGED chatVars]_vars

\* A wrong answer to a known poll was handled while scores were recorded.
C5_Witness ==
    /\ event.op = "poll_answer_handler"
    /\ ~event.ok
    /\ event.poll_id \in DOMAIN PollsGet
    /\ ScoresGet # <<>>

\* C6: a caller who is not authorized is in neither conversation flow and has
\* no collected field, and while nobody is authorized no quiz topic is stored
\* and no run exists.
C6_FailClosed ==
    /\ \A u \in Operators :
          u \notin AUTHORIZED_USER_IDS =>
             /\ poll_conv[u] = END
             /\ dailyquiz_conv[u] = END
             /\ user_data[u] = EmptyUserData
    /\ AUTHORIZED_USER_IDS = {} =>
          /\ "dailyquiz_topic" \notin chat_keys
          /\ \A r \in Runs : tasks[r].pc = "none"

\* C7: every step that publishes a poll adds exactly the close job of that
\* poll, due after POLL_DURATION, to the job queue.
C7_ClosureScheduled ==
    [][Len(published') > Len(published) =>
          LET job == [message_id |-> Len(published'), when |-> POLL_DURATION]
          IN  job \notin jobs /\ jobs' = jobs \cup {job}]_vars

\* C8: a failed send_poll schedules no close job, records no poll and no
\* poll-map entry; the authoring flow reports it with a failure message and
\* run_dailyquiz sends nothing.
C8_PublishFailure ==
    [][(event'.op \in PublishOps /\ ~event'.ok)
          => /\ jobs' = jobs
             /\ published' = published
             /\ PollsGet' = PollsGet
             /\ event'.op = "publish_poll" =>
                   out' = <<Msg("failed_to_create_poll")>>
             /\ event'.op = "publish_dailyquiz" => out' = <<>>]_vars

\* The authoring flow failed to publish while a quiz run was waiting with a
\* recorded poll and a pending close job.
C8_Witness ==
    /\ event.op = "publish_poll"
    /\ ~event.ok
    /\ out = <<Msg("failed_to_create_poll")>>
    /\ jobs # {}
    /\ PollsGet # EmptyMap
    /\ \E r \in Runs : tasks[r].pc = "sleeping"

\* C9: a close_poll job makes one stop_poll call for its poll, the only one
\* that poll ever gets, and leaves the queue whatever the outcome of the call;
\* the other pending jobs, the polls, the quiz session and the runs are as
\* they were.
C9_CloseOnce ==
    [][event'.op = "close_poll" =>
          LET p == event'.poll_id
          IN  /\ CloseJob(p) \in jobs
              /\ jobs' = jobs \ {CloseJob(p)}
              /\ stop_calls[p] = 0
              /\ stop_calls' = [stop_calls EXCEPT ![p] = 1]
              /\ UNCHANGED <<published, chatVars, runVars>>]_vars

\* A close_poll job failed while another close job was pending and a quiz
\* run was waiting.
C9_Witness ==
    /\ event.op = "close_poll"
    /\ ~event.ok
    /\ jobs # {}
    /\ ActiveGet
    /\ \E r \in Runs : tasks[r].pc = "sleeping"

TargetCount(r) ==
    IF tasks[r].pc = "created" THEN CountGet ELSE tasks[r].count

\* C11: a run that skipped no item, had no publish fail and lived through no
\* stop request has published exactly count polls (none for count <= 0) when
\* it leaves its loop and sends the leaderboard; every publish step of a run
\* starts from its own send_poll, adds one poll with 4 options and a correct
\* index in [0,4), and is followed by the interval wait.
C11_EndToEnd ==
    [][\A r \in Runs :
          /\ (event'.op \in RenderOps /\ event'.who = r /\ ~disturbed[r])
               => /\ Cardinality(PollsOf(r)) =
                       (IF TargetCount(r) > 0 THEN TargetCount(r) ELSE 0)
                  /\ Len(out') = 1
          /\ (event'.op = "publish_dailyquiz" /\ event'.ok /\ event'.who = r)
               => /\ tasks[r].pc = "publishing"
                  /\ tasks'[r].pc = "sleeping"
                  /\ Len(published') = Len(published) + 1
                  /\ published'[Len(published')].noptions = NumQuizOptions
                  /\ published'[Len(published')].correct_option_id
                       \in 0..(NumQuizOptions - 1)]_vars

\* C12: a stop request that arrives after a run has passed its check of the
\* active flag leaves the send_poll of that iteration to complete, its poll
\* published and recorded in the poll map, and the run leaves its loop at its
\* next step after the interval wait.
C12_Cooperative ==
    [][\A r \in Runs :
          stop_pending[r] =>
             /\ tasks[r].pc = "publishing" =>
                   tasks'[r].pc \in {"publishing", "sleeping"}
             /\ (event'.op = "publish_dailyquiz" /\ event'.who = r /\ event'.ok)
                   => /\ Len(published') = Len(published) + 1
                      /\ event'.poll_id \in DOMAIN PollsGet'
                      /\ PollsGet'[event'.poll_id] =
                           published'[event'.poll_id].correct_option_id
             /\ (tasks[r].pc = "sleeping" /\ tasks'[r].pc # "sleeping")
                   => event'.op \in RenderOps /\ event'.who = r]_vars

\* Payloads with 4 options whose correct_index is missing, not an integer or
\* outside [0,4).
DefectiveIndexItems ==
    { item \in GenItems :
        /\ item.kind = "dict"
        /\ OptionsOk(item)
        /\ \/ item.ci.tag # "int"
           \/ item.ci.val < 0
           \/ item.ci.val >= NumQuizOptions }

\* The correct index after the shuffle by k when the first option is taken
\* to be the correct one.
DefaultedIndex(options, k) == IndexOf(Shuffled(options, k), options[1])

\* C13: on each of the three paths a payload with 4 options and a defective
\* correct_index is handed to send_poll with the first option as the correct
\* one.
C13_DefaultIndex ==
    [][\A item \in DefectiveIndexItems, k \in Shifts :
          /\ \A r \in Runs :
                (/\ \/ RunEnter(r, item, k)
                    \/ RunWake(r, item, k)
                    \/ RunContinue(r, item, k)
                 /\ event'.op \notin RenderOps \cup {"run_returned"})
                => /\ event'.op = "run_send_poll"
                   /\ tasks'[r].correct_index =
                        DefaultedIndex(item.options.val, k)
          /\ \A ok \in BOOLEAN :
                handle_TQ_question(item, k, ok)
                => /\ event'.op = "publish_TQ"
                   /\ event'.ok =>
                        published'[Len(published')].correct_option_id =
                           DefaultedIndex(item.options.val, k)
          /\ \A u \in Operators, text \in AutoTexts, ok \in BOOLEAN :
                (/\ handle_auto_quiz(u, text, item, k, ok)
                 /\ u \in AUTHORIZED_USER_IDS
                 /\ EndsWithQuestionMark(Strip(text)))
                => /\ event'.op = "publish_auto"
                   /\ event'.ok =>
                        published'[Len(published')].correct_option_id =
                           DefaultedIndex(TruncateAll(item.options.val), k)]_vars

\* C14: a generated payload whose options are missing, not a list, or not
\* exactly 4 elements is rejected on every path (the auto quiz, the /TQ batch
\* and the daily quiz): the step that handles it publishes no poll, records no
\* entry in the poll map and schedules no closure job.  Stated by
\* contraposition: a step that does one of these handles no such payload.
C14_DefectiveOptions ==
    [][LET NothingPublished ==
               /\ published' = published
               /\ jobs' = jobs
               /\ PollsGet' = PollsGet
               /\ \A r \in Runs : tasks'[r].pc = "publishing"
                                     => tasks[r].pc = "publishing"
       IN  ~NothingPublished =>
             \A item \in DefectiveOptionsItems, k \in Shifts :
               /\ \A r \in Runs : ~RunEnter(r, item, k)
                                     /\ ~RunWake(r, item, k)
                                     /\ ~RunContinue(r, item, k)
               /\ \A ok \in BOOLEAN : ~handle_TQ_question(item, k, ok)
               /\ \A u \in Operators, text \in AutoTexts, ok \in BOOLEAN :
                     ~handle_auto_quiz(u, text, item, k, ok)]_vars

\* The auto quiz has rejected a payload with defective options while polls
\* published earlier exist.
C14_Witness ==
    /\ event.op = "handle_auto_quiz_rejected"
    /\ out = <<Msg("not_exactly_4_options")>>
    /\ published # <<>>
    /\ jobs # {}

\* How often the text x occurs in the list opts.
Occurrences(opts, x) == Cardinality({ j \in 1..Len(opts) : opts[j] = x })

\* C15: for every 4-element option list and every correct index in [0,4),
\* lists with repeated texts included, the shuffled list holds the same texts
\* as often as the list before the shuffle, and the recomputed correct index
\* locates an element whose text is the text of the original correct option.
C15_Shuffle ==
    prep.stage = "indexed" =>
        /\ Len(prep.options) = Len(prep.before)
        /\ \A j \in 1..Len(prep.before) :
              Occurrences(prep.options, prep.before[j]) =
                 Occurrences(prep.before, prep.before[j])
        /\ prep.correct_index \in 0..(Len(prep.options) - 1)
        /\ prep.options[prep.correct_index + 1] = prep.before[prep.ci + 1]

\* A list whose correct text occurs twice has been shuffled into another
\* order and the index recomputed to a position other than the given one.
C15_Witness ==
    /\ prep.stage = "indexed"
    /\ prep.given = <<OptA, OptB, OptA, OptD>>
    /\ prep.ci = 2
    /\ prep.options # prep.before
    /\ prep.correct_index # prep.ci

\* C16: in handle_auto_quiz, truncating the options to 95 characters and then
\* shuffling leaves exactly 4 options, and the resulting correct index i
\* satisfies 0 <= i < 4.
C16_TruncateShuffleShape ==
    (prep.path = "auto" /\ prep.stage \notin {"none", "generated"}) =>
        /\ Len(prep.options) = NumQuizOptions
        /\ prep.stage = "indexed" =>
              prep.correct_index \in 0..(NumQuizOptions - 1)

\* An item with an option that was cut has been shuffled and indexed.
C16_Witness ==
    /\ prep.path = "auto"
    /\ prep.stage = "indexed"
    /\ prep.before # prep.given
    /\ prep.options # prep.before
    /\ prep.correct_index > 0

\* Two options of different text that the truncation makes equal.
Twins(opts) ==
    { pair \in (1..Len(opts)) \X (1..Len(opts)) :
        /\ opts[pair[1]] # opts[pair[2]]
        /\ Truncate(opts[pair[1]]) = Truncate(opts[pair[2]]) }

\* C17: when two distinct generated options share their first 95 characters
\* and so are the same text after truncation, the correct index recomputed
\* after the shuffle designates the element that came from the original
\* correct option, not its twin.
C17_TruncationIdentity ==
    (/\ prep.path = "auto"
     /\ prep.stage = "indexed"
     /\ Twins(prep.given) # {}) =>
        prep.origin[prep.correct_index + 1] = prep.ci + 1

\* C18: at the anonymity step (POLL_TYPE) an input moves the conversation to
\* the question step (POLL_QUESTION) if and only if it is 'yes' or 'no' after
\* trimming and lower-casing; any other input leaves it at the anonymity step.
C18_PollType ==
    [][event'.op = "receive_poll_type_channel" =>
         \A u \in Operators, text \in PollTypeTexts :
            receive_poll_type_channel(u, text) =>
               /\ poll_conv[u] = POLL_TYPE
               /\ IF Lower(Strip(text)) \in { <<"y", "e", "s">>, <<"n", "o">> }
                  THEN poll_conv'[u] = POLL_QUESTION
                  ELSE poll_conv'[u] = POLL_TYPE /\ user_data' = user_data]_vars

\* The anonymity step has accepted an answer.
C18_Witness ==
    /\ event.op = "receive_poll_type_channel"
    /\ event.ok
    /\ \E u \in Operators : /\ poll_conv[u] = POLL_QUESTION
                            /\ "is_anonymous" \in user_data[u].keys

\* The comma-separated entries of a text, trimmed, without the blank ones,
\* in their order.
NonBlankEntries(text) ==
    SelectSeq([k \in 1..Len(Split(text, ",")) |-> Strip(Split(text, ",")[k])],
              LAMBDA entry : entry # <<>>)

\* C19: at the options step the collected options are the comma-separated
\* entries of the input, trimmed, blank entries removed, in their original
\* order, cut to the first 10; the conversation moves to the correct-option
\* step exactly when there are at least 2 non-blank entries and otherwise
\* stays at the options step.
C19_Options ==
    [][event'.op = "receive_options_channel" =>
         \A u \in Operators, text \in OptionsTexts \cup {ManyOptionsText} :
            receive_options_channel(u, text) =>
               /\ poll_conv[u] = POLL_OPTIONS
               /\ IF Len(NonBlankEntries(text)) >= 2
                  THEN /\ poll_conv'[u] = POLL_CORRECT
                       /\ user_data'[u].options =
                             Take(NonBlankEntries(text), MaxPollOptions)
                       /\ Len(user_data'[u].options) <= MaxPollOptions
                  ELSE /\ poll_conv'[u] = POLL_OPTIONS
                       /\ user_data' = user_data
               /\ text = <<"a", ",", " ", "b", " ", ",", ",", " ", "c">>
                     => user_data'[u].options = <<<<"a">>, <<"b">>, <<"c">>>>
               /\ text = ManyOptionsText
                     => user_data'[u].options =
                           [j \in 1..MaxPollOptions |-> <<"a">>]]_vars

\* Eleven entries were typed and ten were kept.
C19_Witness ==
    /\ event.op = "receive_options_channel"
    /\ event.ok
    /\ \E u \in Operators :
          /\ poll_conv[u] = POLL_CORRECT
          /\ user_data[u].options = [j \in 1..MaxPollOptions |-> <<"a">>]

\* C20: at the correct-option step an input that parses as an integer n with
\* 1 <= n <= number of collected options ends the conversation: the poll is
\* sent with the collected question (capped at 300 characters), the collected
\* options and the correct index n - 1, and whether send_poll succeeded or
\* failed the collected fields are cleared and the conversation is over; any
\* other input leaves the conversation at this step and publishes nothing.
C20_FinalStep ==
    [][event'.op \in {"receive_correct_option_channel", "publish_poll"} =>
         \A u \in Operators, text \in CorrectTexts \cup ManyCorrectTexts,
            ok \in BOOLEAN :
            receive_correct_option_channel(u, text, ok) =>
               LET n == IntParse(text)
                   options == user_data[u].options
               IN  IF n.ok /\ 1 <= n.val /\ n.val <= Len(options)
                   THEN /\ poll_conv'[u] = END
                        /\ user_data'[u] = EmptyUserData
                        /\ event'.op = "publish_poll"
                        /\ event'.ok = ok
                        /\ IF ok
                           THEN published' =
                                  Append(published,
                                         [path |-> "poll",
                                          correct_option_id |-> n.val - 1,
                                          noptions |-> Len(options),
                                          question |->
                                             Take(user_data[u].question,
                                                  MaxQuestionLen),
                                          options |-> options])
                           ELSE published' = published
                   ELSE /\ poll_conv'[u] = POLL_CORRECT
                        /\ user_data' = user_data
                        /\ published' = published
                        /\ jobs' = jobs]_vars

\* The tenth of ten kept options was named for a question of more than 300
\* characters, and the poll was sent.
C20_Witness ==
    /\ event.op = "publish_poll"
    /\ event.ok
    /\ published[event.poll_id].correct_option_id = MaxPollOptions - 1
    /\ published[event.poll_id].question = Take(LongQuestion, MaxQuestionLen)
    /\ poll_conv[event.who] = END
    /\ user_data[event.who] = EmptyUserData

\* The inputs that fail the grammar of a conversation state, spelled out:
\* neither yes nor no; fewer than two options; no number of one of the (two
\* or three) collected options; no integer.
BadPollTypeTexts == { <<"m", "a", "y", "b", "e">>, <<"y", "e", "s", "!">> }
BadOptionsTexts == { <<"a">>, <<" ", ",", " ">> }
BadCorrectTexts == { <<"0">>, <<"4">>, <<"x">>, <<"-", "1">> }
BadCountTexts == { <<"x">> }

\* C21: in every state of the two conversations an input that fails the
\* grammar of the state leaves the state of both conversations unchanged and
\* leaves the collected fields, the quiz session (active flag, scores, poll
\* map, topic, count), the run tasks and the published polls as they were.
C21_InvalidInput ==
    [][event'.op \in {"receive_poll_type_channel", "receive_options_channel",
                      "receive_correct_option_channel", "publish_poll",
                      "receive_dailyquiz_count"} =>
         \A u \in Operators :
            (\/ \E text \in BadPollTypeTexts : receive_poll_type_channel(u, text)
             \/ \E text \in BadOptionsTexts : receive_options_channel(u, text)
             \/ \E text \in BadCorrectTexts, ok \in BOOLEAN :
                   receive_correct_option_channel(u, text, ok)
             \/ \E text \in BadCountTexts :
                   receive_dailyquiz_count(u, text, Runs))
            => /\ UNCHANGED <<poll_conv, dailyquiz_conv, user_data>>
               /\ UNCHANGED <<chat_keys, chat_data>>
               /\ UNCHANGED <<tasks, published, jobs>>
               /\ ~event'.ok]_vars

\* A text that is no number was typed as the count while a quiz session with
\* a recorded poll and a score was running.
C21_Witness ==
    /\ event.op = "receive_dailyquiz_count"
    /\ ~event.ok
    /\ \E u \in Operators : dailyquiz_conv[u] = DAILYQUIZ_COUNT
    /\ ActiveGet
    /\ ScoresGet # <<>>
    /\ PollsGet # EmptyMap

\* C22: on a count that parses as an integer, receive_dailyquiz_count creates
\* the quiz session with active = true, no scores and an empty poll map,
\* creates a run_dailyquiz task, and ends the configuration conversation in
\* the same step, before that task has run or published anything.
C22_SessionStart ==
    [][(event'.op = "receive_dailyquiz_count" /\ event'.ok) =>
         LET u == event'.who
             r == event'.poll_id
         IN  /\ receive_dailyquiz_count(u, <<"2">>, Runs)
             /\ {"dailyquiz_count", "dailyquiz_active", "dailyquiz_scores",
                 "dailyquiz_polls"} \subseteq chat_keys'
             /\ chat_data'.dailyquiz_count = 2
             /\ chat_data'.dailyquiz_active
             /\ chat_data'.dailyquiz_scores = <<>>
             /\ chat_data'.dailyquiz_polls = EmptyMap
             /\ tasks[r].pc = "none"
             /\ tasks'[r] = [NoTask EXCEPT !.pc = "created"]
             /\ \A q \in Runs \ {r} : tasks'[q] = tasks[q]
             /\ dailyquiz_conv[u] = DAILYQUIZ_COUNT
             /\ dailyquiz_conv'[u] = END
             /\ published' = published
             /\ jobs' = jobs
             /\ { p \in PollIds : owner'[p] = r } = {}]_vars

\* A session was configured while an earlier run, which has published a poll
\* and counted a score, is in its interval wait.
C22_Witness ==
    /\ event.op = "receive_dailyquiz_count"
    /\ event.ok
    /\ tasks[event.poll_id].pc = "created"
    /\ \E q \in Runs : tasks[q].pc = "sleeping" /\ PollsOf(q) # {}
    /\ ActiveGet
    /\ ScoresGet = <<>>
    /\ \E q \in Runs, u \in Users : earned[q][u] > 0

\* C23: at most one quiz run is running at any time: no reachable state has
\* two run_dailyquiz tasks that have both started and not yet ended.
C23_SingleRun ==
    \A r, q \in Runs : (Running(r) /\ Running(q)) => r = q

\* C24: at every moment of a quiz run each entry of the poll map is the
\* correct option index that was sent to the transport for that poll, and
\* each poll published by a run that is still running has its entry.
C24_PollMatching ==
    /\ \A p \in DOMAIN PollsGet :
          /\ p \in 1..Len(published)
          /\ PollsGet[p] = published[p].correct_option_id
    /\ \A r \in Runs :
          Running(r) => \A p \in PollsOf(r) : p \in DOMAIN PollsGet

\* The steps of a task that start or continue a pass of its loop.
PassOps == {"run_send_poll", "run_skipped", "run_raised", "run_completed",
            "run_stopped"}

\* C25: between two polls published by the same run there is one complete
\* interval wait.  A task that awaits send_poll goes, on success and on
\* failure, into its sleep and nowhere else; it hands a poll to send_poll, or
\* skips an item, only in a pass that began at the start of the task, at the
\* end of a sleep or after a skipped item; and a sleep ends only by the task's
\* own next pass.
C25_IntervalWait ==
    [][\A r \in Runs :
          /\ (tasks[r].pc = "publishing" /\ tasks'[r] # tasks[r])
                => /\ tasks'[r].pc = "sleeping"
                   /\ event'.op = "publish_dailyquiz"
                   /\ event'.who = r
          /\ (tasks'[r].pc \in {"publishing", "loop"} /\ tasks'[r] # tasks[r])
                => /\ tasks[r].pc \in {"created", "sleeping", "loop"}
                   /\ event'.op \in PassOps
                   /\ event'.who = r
          /\ (tasks[r].pc = "sleeping" /\ tasks'[r] # tasks[r])
                => /\ event'.op \in PassOps
                   /\ event'.who = r
                   /\ tasks'[r].pc # "sleeping"
                   /\ published' = published]_vars

\* A run has published its second poll and is in the wait that follows it.
C25_Witness ==
    \E r \in Runs :
       /\ event.op = "publish_dailyquiz"
       /\ event.ok
       /\ event.who = r
       /\ tasks[r].pc = "sleeping"
       /\ tasks[r].i = 1
       /\ Cardinality(PollsOf(r)) = 2

\* The model's caps on the scores leave room for one more point of user u.
BelowCaps(u) ==
    /\ ScoreOf(ScoresGet, u) < MaxScore
    /\ \A q \in Runs : earned[q][u] < MaxScore

\* C26: while a run is suspended in its interval wait, stop requests and
\* answer events are handled without waiting for the run: both handlers can
\* run at once; a correct answer handled during the wait is in the scores
\* before the run moves, a stop request handled during the wait has cleared
\* the active flag before the run moves, and the run's next check, if it has
\* an iteration left, sees it.
C26_Responsive ==
    [][\A r \in Runs : tasks[r].pc = "sleeping" =>
          /\ \A u \in Operators : ENABLED stop_dailyquiz(u)
          /\ \A p \in PollIds, u \in Users, ids \in AnswerChoices :
                BelowCaps(u) => ENABLED poll_answer_handler(p, u, ids)
          /\ event'.op = "stop_dailyquiz"
                => ~ActiveGet' /\ tasks'[r] = tasks[r]
          /\ \A p \in PollIds, u \in Users, ids \in AnswerChoices :
                (/\ poll_answer_handler(p, u, ids)
                 /\ p \in DOMAIN PollsGet
                 /\ PollsGet[p] \in ids)
                => /\ ScoreOf(ScoresGet', u) = ScoreOf(ScoresGet, u) + 1
                   /\ tasks'[r] = tasks[r]
          /\ (~ActiveGet /\ tasks'[r] # tasks[r])
                => /\ event'.op \in RenderOps
                   /\ event'.who = r
                   /\ tasks[r].i + 1 < tasks[r].count
                         => event'.op = "run_stopped"]_vars

\* During the interval wait of a run a correct answer was counted and then a
\* stop request was handled; the run has not moved.
C26_Witness ==
    \E r \in Runs :
       /\ tasks[r].pc = "sleeping"
       /\ event.op = "stop_dailyquiz"
       /\ ~ActiveGet
       /\ ScoresGet # <<>>
       /\ PollsOf(r) # {}

\* C27: a stop request does not cancel deferred closes: stop_dailyquiz leaves
\* the pending close jobs and the stop_poll calls as they are; a pending job
\* leaves the queue only by its own close_poll step, and it can fire in any
\* state in which no task is inside an await-free section, so each closure
\* scheduled before the stop can still fire after it.
C27_StopKeepsJobs ==
    [][/\ event'.op = "stop_dailyquiz"
            => /\ jobs' = jobs
               /\ stop_calls' = stop_calls
               /\ published' = published
       /\ \A job \in jobs :
            /\ job \notin jobs'
                 => /\ event'.op = "close_poll"
                    /\ event'.poll_id = job.message_id
                    /\ stop_calls'[job.message_id] = stop_calls[job.message_id] + 1
            /\ cpu = 0 => /\ ENABLED close_poll(job, TRUE)
                          /\ ENABLED close_poll(job, FALSE)]_vars

\* A stop request was handled during the interval wait of a run while two
\* close jobs were pending.
C27_Witness ==
    /\ event.op = "stop_dailyquiz"
    /\ Cardinality(jobs) = 2
    /\ ~ActiveGet
    /\ \E r \in Runs : tasks[r].pc = "sleeping"

\* No quiz session was ever configured: dailyquiz_count is written by every
\* accepted count and never removed.
NeverStarted == "dailyquiz_count" \notin chat_keys

\* C28: a stop request when no quiz session was ever started is tolerated:
\* stop_dailyquiz completes with its reply, publishes no poll, sends no
\* leaderboard and starts or ends no task; a session configured afterwards is
\* active, and its run enters the loop as any run does.
C28_StopBeforeStart ==
    [][/\ (event'.op = "stop_dailyquiz" /\ NeverStarted)
            => /\ event'.ok
               /\ out' = <<Msg("daily_quiz_stopped")>>
               /\ UNCHANGED <<published, jobs, tasks>>
               /\ ScoresGet' = <<>> /\ PollsGet' = EmptyMap
               /\ NeverStarted'
       /\ (/\ event'.op = "receive_dailyquiz_count" /\ event'.ok
           /\ NeverStarted /\ "dailyquiz_active" \in chat_keys)
            => /\ ~ActiveGet
               /\ ActiveGet'
               /\ tasks'[event'.poll_id].pc = "created"
       /\ \A r \in Runs :
            (/\ tasks[r].pc = "created" /\ tasks'[r] # tasks[r]
             /\ ActiveGet /\ CountGet > 0 /\ TopicGet # <<>>)
            => event'.op \in {"run_send_poll", "run_skipped", "run_raised"}]_vars

\* A stop request has been handled although no session was ever configured.
C28_Witness ==
    /\ event.op = "stop_dailyquiz"
    /\ NeverStarted
    /\ "dailyquiz_active" \in chat_keys
    /\ ~ActiveGet
    /\ published = <<>>
    /\ \A r \in Runs : tasks[r].pc = "none"

\* C29: a stop request is never lost: a run that was in progress (awaiting
\* send_poll or in its interval wait) when stop_dailyquiz cleared the active
\* flag hands no further poll to send_poll, whatever commands follow.
C29_StopNeverLost ==
    [][\A r \in Runs :
          stop_pending[r] => ~(event'.op = "run_send_poll" /\ event'.who = r)]_vars

\* C30: the cleanup at the end of one run does not damage a later session:
\* when a run finishes while the task of a session configured after that run
\* started is alive, the poll entries recorded for that later run are still
\* in the poll map, the scores earned on its polls are still in the scores
\* map, and the session is active if it was.
C30_CleanupOwnState ==
    [][\A r \in Runs :
          (/\ event'.op = "run_finish" /\ event'.ok /\ event'.who = r
           /\ successor[r] # 0
           /\ tasks[successor[r]].pc # "none")
          => LET q == successor[r]
             IN  /\ \A p \in PollsOf(q) :
                       p \in DOMAIN PollsGet => p \in DOMAIN PollsGet'
                 /\ \A u \in Users :
                       (earned[q][u] > 0 /\ HasScore(ScoresGet, u))
                          => HasScore(ScoresGet', u)
                 /\ ActiveGet => ActiveGet']_vars

\* C31: every quiz run started with a topic ends with one leaderboard and a
\* cleared session: whenever a run_dailyquiz task that passed its topic check
\* ends, it ends in the statements after a leaderboard send that succeeded,
\* and the session is then inactive with empty scores and an empty poll map.
C31_RunEndsCleared ==
    [][\A r \in Runs :
          (/\ tasks[r].pc # "none"
           /\ tasks'[r].pc = "none"
           /\ event'.op # "run_returned")
          => /\ event'.op = "run_finish" /\ event'.ok /\ event'.who = r
             /\ tasks[r].pc = "sending"
             /\ ~ActiveGet'
             /\ ScoresGet' = <<>>
             /\ PollsGet' = EmptyMap]_vars

\* C32: every poll handed to the transport carries a correct option index
\* that is a position of the option list sent with it: for every published
\* poll of the authoring flow, the auto quiz, the /TQ batch and the daily
\* quiz, 0 <= correct_option_id < number of options.
C32_IndexInRange ==
    \A p \in 1..Len(published) :
        /\ published[p].correct_option_id >= 0
        /\ published[p].correct_option_id < published[p].noptions

\* An authored poll whose correct option is its last one stands next to a
\* generated poll.
C32_Witness ==
    /\ \E p \in 1..Len(published) :
          /\ published[p].path = "poll"
          /\ published[p].noptions >= 2
          /\ published[p].correct_option_id = published[p].noptions - 1
    /\ \E p \in 1..Len(published) :
          published[p].path \in {"auto", "TQ", "dailyquiz"}

====
